---- MODULE Spec2Model ----
(***************************************************************************)
(* Model of the two tutorial scripts of the repository:                    *)
(*                                                                         *)
(*   - the ARIMA grid search: evaluate_arima_model (walk-forward           *)
(*     validation of one order) and evaluate_models (the sweep over the    *)
(*     grid p_values x d_values x q_values);                               *)
(*   - the XGBoost thread-count timing sweep.                              *)
(*                                                                         *)
(* The statistical libraries are external.  ARIMA(...).fit().forecast()    *)
(* is modelled as a deterministic routine of (history, order): whether it  *)
(* raises is left open and remembered in lib the first time a fit is       *)
(* asked for, the value it forecasts is the stand-in Forecast.             *)
(***************************************************************************)
EXTENDS Integers, Sequences, FiniteSets, TLC

VARIABLES
    \* ---- evaluate_models ----
    series,       \* the caller's array (series.values)
    p_values, d_values, q_values,
    dataset,      \* the local name after dataset.astype('float32')
    i, j, k,      \* how many items the three for loops have taken
    order,        \* the triple under evaluation
    best_score, best_cfg,
    out,          \* lines printed to standard output
    pc,           \* position of the grid-search script
    \* ---- evaluate_arima_model (locals of the running call) ----
    train_size, train, test, history, predictions, t,
    \* ---- the external ARIMA library ----
    lib,          \* <<history, order>> -> TRUE when that fit raises
    \* ---- history of the run, read by the properties only ----
    recorded,     \* errors printed by a documented run (replay only)
    attempts,     \* grid positions <<i, j, k>> handed to the evaluator
    trace,        \* how each call of evaluate_arima_model ended
    \* ---- the thread-count timing sweep ----
    num_threads, results,
    idx,          \* how many items the for loop has taken
    n,            \* the thread count of the current pass
    start, elapsed,
    clock,        \* the system's wall clock, what time.time() returns
    shown,        \* lines printed by the sweep
    fitted,       \* nthread of every model that was fitted
    tpc           \* position of the timing script

inputVars == <<series, p_values, d_values, q_values, dataset, recorded>>
gridVars  == <<inputVars, i, j, k, order, best_score, best_cfg, out, pc>>
evalVars  == <<train_size, train, test, history, predictions, t>>
logVars   == <<lib, attempts, trace>>
sweepVars == <<num_threads, results, idx, n, start, elapsed, clock, shown,
               fitted, tpc>>
vars      == <<gridVars, evalVars, logVars, sweepVars>>

(***************************************************************************)
(* Bounds of the model.                                                    *)
(***************************************************************************)
MaxLen  == 3     \* longest series of the grid-search specification
MaxDim  == 2     \* longest list of candidate values per dimension
MaxOrd  == 1     \* candidate values are 0..MaxOrd
MaxGrid == 4     \* most grid points of one sweep

(***************************************************************************)
(* Python values.                                                          *)
(***************************************************************************)
None == << >>                      \* never equal to an order triple
Inf  == [num |-> 1, den |-> 0]     \* float("inf")
NoScore == [num |-> 0, den |-> 0]  \* placeholder where a call returned nothing

IsNumber(x) == DOMAIN x = {"num", "den"}

\* a < b on floats that are either a ratio num/den (den > 0) or +infinity
Less(a, b) ==
    IF a = Inf THEN FALSE
    ELSE IF b = Inf THEN TRUE
    ELSE IF a.den = b.den THEN a.num < b.num
    ELSE a.num * b.den < b.num * a.den

RECURSIVE BitLen(_)
BitLen(x) == IF x = 0 THEN 0 ELSE 1 + BitLen(x \div 2)

RECURSIVE Pow2(_)
Pow2(e) == IF e = 0 THEN 1 ELSE 2 * Pow2(e - 1)

\* round x / 2^s to the nearest integer, ties to even (IEEE 754 default)
RoundShift(x, s) ==
    IF s <= 0 THEN x
    ELSE LET q == x \div Pow2(s)
             r == x % Pow2(s)
             half == Pow2(s - 1)
         IN  IF r > half \/ (r = half /\ q % 2 = 1) THEN q + 1 ELSE q

\* numpy astype('float32') of a non-negative whole observation: 24 bits kept
AsFloat32(x) ==
    LET s == BitLen(x) - 24
    IN  IF s <= 0 THEN x ELSE RoundShift(x, s) * Pow2(s)

AsType(X) == [m \in 1..Len(X) |-> AsFloat32(X[m])]

(***************************************************************************)
(* int(len(X) * 0.66), computed as the interpreter computes it: the double *)
(* nearest to 0.66 is Mant66 / 2^53 with                                   *)
(*   Mant66 = 5944751508129055 = Mant66Hi * 2^36 + Mant66Mid * 2^18        *)
(*                                + Mant66Lo,                              *)
(* the product with len(X) is rounded to 53 significant bits (ties to      *)
(* even) and int() drops the fraction.  The product is held in limbs of 18 *)
(* bits; exact for lengths below 2^14.                                     *)
(***************************************************************************)
Limb      == 262144
Mant66Hi  == 86507
Mant66Mid == 136314
Mant66Lo  == 230687

\* variant: round(len(X) * 0.66) in place of int(...)
IntTimes066_round(len) == (66 * len + 50) \div 100

IntTimes066(len) ==
    LET t0 == len * Mant66Lo
        t1 == len * Mant66Mid + t0 \div Limb
        t2 == len * Mant66Hi + t1 \div Limb
        l0 == t0 % Limb
        l1 == t1 % Limb
        \* bits of the exact product beyond the 53 a double keeps
        s  == 36 + BitLen(t2) - 53
        r0 == RoundShift(l0, s) * (IF s <= 0 THEN 1 ELSE Pow2(s))
        c1 == l1 + r0 \div Limb
        c2 == t2 + c1 \div Limb
    IN  IF len = 0 THEN 0 ELSE c2 \div 131072

\* variant: the product is rounded up
TrainSize_ceil(X) == (66 * Len(X) + 99) \div 100

TrainSize(X) == IntTimes066(Len(X))

Min(a, b) == IF a < b THEN a ELSE b

\* Python's X[lo:hi] for 0 <= lo, on a sequence indexed from 1
Slice(X, lo, hi) == SubSeq(X, lo + 1, Min(hi, Len(X)))

Train(X) == Slice(X, 0, TrainSize(X))
Test(X)  == Slice(X, TrainSize(X), Len(X))

(***************************************************************************)
(* The library calls of evaluate_arima_model.                              *)
(***************************************************************************)
\* model_fit.forecast()[0]: a deterministic routine of the history and the
\* order; the stand-in extrapolates from the last observation
Forecast(h, ord) ==
    (IF Len(h) = 0 THEN 0 ELSE h[Len(h)]) + ord[1] + ord[2] - ord[3]

RECURSIVE SumSq(_, _, _)
SumSq(a, b, m) ==
    IF m = 0 THEN 0 ELSE (a[m] - b[m]) * (a[m] - b[m]) + SumSq(a, b, m - 1)

\* sklearn mean_squared_error raises on an empty input
MseRaises(y_true, y_pred) == Len(y_true) = 0 \/ Len(y_true) # Len(y_pred)

mean_squared_error(y_true, y_pred) ==
    [num |-> SumSq(y_true, y_pred, Len(y_true)), den |-> Len(y_true)]

(***************************************************************************)
(* String formatting of the two print statements.                          *)
(***************************************************************************)
\* '%s' % x: str() of None or of a tuple; never raises
FmtS(x) ==
    IF x = None THEN [txt |-> "None", args |-> << >>]
    ELSE [txt |-> "(%d, %d, %d)", args |-> x]

\* '%.3f' % x: thousandths, nearest; 'inf' for float("inf")
Fmt3f(x) ==
    IF x = Inf THEN [txt |-> "inf", milli |-> 0]
    ELSE LET q == x.num \div x.den
             r == x.num % x.den
         IN  [txt |-> "%.3f",
              milli |-> q * 1000 + (2000 * r + x.den) \div (2 * x.den)]

\* variant: a format that unpacks best_cfg, 'Best ARIMA(%d, %d, %d) ...'
FormatRaises_unpack(cfg, score) == cfg = None \/ ~IsNumber(score)

\* the % operator raises TypeError when '%.3f' is handed a non-number
FormatRaises(cfg, score) == ~IsNumber(score)

ProgressLine(ord, mse) == [kind |-> "ARIMA", cfg |-> FmtS(ord), mse |-> Fmt3f(mse)]
BestLine(cfg, score) == [kind |-> "Best ARIMA", cfg |-> FmtS(cfg), mse |-> Fmt3f(score)]

(***************************************************************************)
(* evaluate_models: initial state (after the astype and the initialisation *)
(* of the accumulator) and the inputs of the model.                        *)
(***************************************************************************)
\* a series of len observations with unequal steps
Series(len) == [m \in 1..len |-> (m * (m + 1)) \div 2]

Lists == UNION {[1..m -> 0..MaxOrd] : m \in 0..MaxDim}

\* evaluate_arima_model has not been called yet
NoCall ==
    /\ train_size = 0 /\ train = << >> /\ test = << >>
    /\ history = << >> /\ predictions = << >> /\ t = 0

\* the timing script is not running
NoSweep ==
    /\ num_threads = << >> /\ results = << >> /\ idx = 0 /\ n = 0
    /\ start = 0 /\ elapsed = 0 /\ clock = 0
    /\ shown = << >> /\ fitted = << >> /\ tpc = "off"

InitGrid(X, pv, dv, qv) ==
    /\ series = X
    /\ recorded = << >>
    /\ NoSweep
    /\ p_values = pv /\ d_values = dv /\ q_values = qv
    /\ dataset = AsType(X)
    /\ best_score = Inf /\ best_cfg = None
    /\ i = 0 /\ j = 0 /\ k = 0
    /\ order = None
    /\ out = << >>
    /\ pc = "for_p"
    /\ NoCall
    /\ lib = << >>
    /\ attempts = << >>
    /\ trace = << >>

Init ==
    \E len \in 0..MaxLen, pv \in Lists, dv \in Lists, qv \in Lists :
        /\ Len(pv) * Len(dv) * Len(qv) <= MaxGrid
        /\ InitGrid(Series(len), pv, dv, qv)

(***************************************************************************)
(* The three for loops.                                                    *)
(***************************************************************************)
\* variant: the loop stops one item short
HasNext_short(pos, values) == pos < Len(values) - 1

\* "for x in values": another item is left after pos items were taken
HasNext(pos, values) == pos < Len(values)

ForP ==
    /\ pc = "for_p"
    /\ IF HasNext(i, p_values)
       THEN i' = i + 1 /\ j' = 0 /\ pc' = "for_d"
       ELSE pc' = "print_best" /\ UNCHANGED <<i, j>>
    /\ UNCHANGED <<sweepVars, inputVars, k, order,
                   best_score, best_cfg, out, evalVars, logVars>>

ForD ==
    /\ pc = "for_d"
    /\ IF HasNext(j, d_values)
       THEN j' = j + 1 /\ k' = 0 /\ pc' = "for_q"
       ELSE pc' = "for_p" /\ UNCHANGED <<j, k>>
    /\ UNCHANGED <<sweepVars, inputVars, i, order,
                   best_score, best_cfg, out, evalVars, logVars>>

\* order = (p,d,q)
MakeOrder(p, d, q) == <<p, d, q>>

ForQ ==
    /\ pc = "for_q"
    /\ IF HasNext(k, q_values)
       THEN /\ k' = k + 1
            /\ order' = MakeOrder(p_values[i], d_values[j], q_values[k + 1])
            /\ attempts' = Append(attempts, [pos |-> <<i, j, k + 1>>, order |-> order'])
            /\ pc' = "call"
       ELSE pc' = "for_d" /\ UNCHANGED <<k, order, attempts>>
    /\ UNCHANGED <<sweepVars, inputVars, i, j,
                   best_score, best_cfg, out, evalVars, lib, trace>>

(***************************************************************************)
(* evaluate_arima_model(dataset, order).                                   *)
(***************************************************************************)
\* variant: history is kept between calls (a module-level list)
NewHistory_kept(tr, old) == old \o tr

\* history = [x for x in train]: a new list, whatever an earlier call left
NewHistory(tr, old) == tr

Call ==
    /\ pc = "call"
    /\ train_size' = TrainSize(dataset)
    /\ train' = Train(dataset)
    /\ test' = Test(dataset)
    /\ history' = NewHistory(train', history)
    /\ predictions' = << >>
    /\ t' = 0
    /\ pc' = "walk"
    /\ UNCHANGED <<sweepVars, inputVars, i, j, k, order,
                   best_score, best_cfg, out, logVars>>

\* variant: the failed configuration is evaluated again
ExceptContinue_retry(score, cfg) == [pc |-> "call", score |-> score, cfg |-> cfg]

\* variant: except: break -- the sweep is given up at the first failure
ExceptContinue_break(score, cfg) == [pc |-> "print_best", score |-> score, cfg |-> cfg]

\* except: continue -- the accumulator as it was, on to the next q
ExceptContinue(score, cfg) == [pc |-> "for_q", score |-> score, cfg |-> cfg]

\* the exception leaves evaluate_arima_model (which catches nothing) and the
\* driver resumes in its except clause; the dead locals are overwritten by
\* the next call
Raised ==
    LET e == ExceptContinue(best_score, best_cfg)
    IN  /\ pc' = e.pc
        /\ best_score' = e.score
        /\ best_cfg' = e.cfg
        /\ trace' = Append(trace, [order |-> order, ok |-> FALSE,
                                   preds |-> << >>, mse |-> NoScore])
        /\ UNCHANGED <<sweepVars, inputVars, i, j, k, order, out, attempts,
                       evalVars>>

\* variant: history.append(yhat), the forecast is fed back
Observe_yhat(h, tst, tt, yhat) == Append(h, yhat)

\* history.append(test[t]): the true observation of step tt (0-based)
Observe(h, tst, tt, yhat) == Append(h, tst[tt + 1])

\* variant: history = train without a copy, so the append reaches X
XAfterAppend_alias(X, x) == Append(X, x)

\* history is a list built by a comprehension, an object of its own:
\* history.append(...) leaves X as it is
XAfterAppend(X, x) == X

\* variant: the evaluator catches a failed fit itself and skips the step
FitForecast_caught ==
    /\ pc = "walk"
    /\ t < Len(test)
    /\ LET key == <<history, order>>
       IN  \E raises \in BOOLEAN :
             /\ key \in DOMAIN lib => raises = lib[key]
             /\ lib' = [x \in DOMAIN lib \cup {key} |->
                           IF x = key THEN raises ELSE lib[x]]
             /\ predictions' = IF raises THEN predictions
                                ELSE Append(predictions, Forecast(history, order))
             /\ history' = Observe(history, test, t, Forecast(history, order))
             /\ t' = t + 1
             /\ UNCHANGED <<sweepVars, gridVars, train_size, train, test,
                            attempts, trace>>

\* one pass of the walk-forward loop: fit, forecast, record, extend history
FitForecast ==
    /\ pc = "walk"
    /\ t < Len(test)
    /\ LET key == <<history, order>>
       IN  \E raises \in BOOLEAN :
             /\ key \in DOMAIN lib => raises = lib[key]
             /\ lib' = [x \in DOMAIN lib \cup {key} |->
                           IF x = key THEN raises ELSE lib[x]]
             /\ IF raises
                THEN Raised
                ELSE /\ predictions' = Append(predictions, Forecast(history, order))
                     /\ history' = Observe(history, test, t, Forecast(history, order))
                     /\ t' = t + 1
                     /\ dataset' = XAfterAppend(dataset, test[t + 1])
                     /\ UNCHANGED <<sweepVars, series, p_values, d_values, q_values,
                                    recorded, i, j, k, order, best_score, best_cfg,
                                    out, pc, train_size, train, test,
                                    attempts, trace>>

\* variant: best_score is updated, best_cfg is not
UpdateBest_scoreonly(mse, ord, score, cfg) ==
    IF Less(mse, score) THEN <<mse, cfg>> ELSE <<score, cfg>>

\* variant: if mse > best_score
UpdateBest_greater(mse, ord, score, cfg) ==
    IF Less(score, mse) THEN <<mse, ord>> ELSE <<score, cfg>>

\* variant: the comparison is left out, the last success is kept
UpdateBest_last(mse, ord, score, cfg) == <<mse, ord>>

\* variant: if mse <= best_score, a tie replaces the best
UpdateBest_lessEq(mse, ord, score, cfg) ==
    IF ~Less(score, mse) THEN <<mse, ord>> ELSE <<score, cfg>>

\* if mse < best_score: best_score, best_cfg = mse, order
UpdateBest(mse, ord, score, cfg) ==
    IF Less(mse, score) THEN <<mse, ord>> ELSE <<score, cfg>>

\* variant: the print sits inside the if, only improvements are shown
PrintProgress_improved(o, ord, mse, score) ==
    IF Less(mse, score) THEN Append(o, ProgressLine(ord, mse)) ELSE o

\* print('ARIMA%s MSE=%.3f' % (order,mse)), on every pass that got an mse
PrintProgress(o, ord, mse, score) == Append(o, ProgressLine(ord, mse))

\* the loop is over: the error is computed and handed back to the driver
ReturnError ==
    /\ pc = "walk"
    /\ t >= Len(test)
    /\ IF MseRaises(test, predictions)
       THEN Raised /\ UNCHANGED lib
       ELSE LET mse == mean_squared_error(test, predictions)
                b == UpdateBest(mse, order, best_score, best_cfg)
            IN  /\ best_score' = b[1]
                /\ best_cfg' = b[2]
                /\ out' = PrintProgress(out, order, mse, best_score)
                /\ trace' = Append(trace, [order |-> order, ok |-> TRUE,
                                           preds |-> predictions, mse |-> mse])
                /\ pc' = "for_q"
                /\ UNCHANGED <<sweepVars, inputVars, i, j, k, order, lib,
                               attempts, evalVars>>

\* print('Best ARIMA%s MSE=%.3f' % (best_cfg, best_score))
PrintBest ==
    /\ pc = "print_best"
    /\ IF FormatRaises(best_cfg, best_score)
       THEN pc' = "raised" /\ out' = out
       ELSE pc' = "done" /\ out' = Append(out, BestLine(best_cfg, best_score))
    /\ UNCHANGED <<sweepVars, inputVars, i, j, k, order,
                   best_score, best_cfg, evalVars, logVars>>

Next == ForP \/ ForD \/ ForQ \/ Call \/ FitForecast \/ ReturnError \/ PrintBest

Spec == Init /\ [][Next]_vars

(***************************************************************************)
(* The documented runs: the output cells of the notebook list the error    *)
(* that evaluate_arima_model returned for every order that did not raise,  *)
(* in thousandths.  The data files are not part of the repository, so a    *)
(* replay hands these errors to the driver in place of the evaluator.      *)
(***************************************************************************)
ShampooRun ==
    <<0, 0, 0>> :> 52425268 @@
    <<0, 0, 1>> :> 38145259 @@
    <<0, 0, 2>> :> 23989598 @@
    <<0, 1, 0>> :> 18003173 @@
    <<0, 1, 1>> :> 9558166 @@
    <<0, 2, 0>> :> 67339808 @@
    <<0, 2, 1>> :> 18321891 @@
    <<1, 0, 0>> :> 23112826 @@
    <<1, 1, 0>> :> 7121367 @@
    <<1, 1, 1>> :> 7003683 @@
    <<1, 2, 0>> :> 18608016 @@
    <<2, 1, 0>> :> 5689931 @@
    <<2, 1, 1>> :> 7759704 @@
    <<2, 2, 0>> :> 9860940 @@
    <<4, 1, 0>> :> 6649594 @@
    <<4, 1, 1>> :> 6796295 @@
    <<4, 2, 0>> :> 7596329 @@
    <<4, 2, 1>> :> 4694872 @@
    <<6, 1, 0>> :> 6810082 @@
    <<6, 2, 0>> :> 6261123 @@
    <<8, 1, 0>> :> 6579580

BirthsRun ==
    <<0, 0, 0>> :> 29465873 @@
    <<0, 0, 1>> :> 29429139 @@
    <<0, 0, 2>> :> 29389478 @@
    <<0, 1, 0>> :> 29236383 @@
    <<0, 1, 1>> :> 29390539 @@
    <<0, 1, 2>> :> 29369859 @@
    <<0, 2, 0>> :> 29553241 @@
    <<0, 2, 1>> :> 29236311 @@
    <<1, 0, 0>> :> 29406124 @@
    <<1, 1, 0>> :> 29146822 @@
    <<1, 1, 1>> :> 29360948 @@
    <<1, 1, 2>> :> 29305506 @@
    <<1, 2, 0>> :> 29209386 @@
    <<2, 0, 0>> :> 29364905 @@
    <<2, 0, 1>> :> 29387126 @@
    <<2, 1, 0>> :> 29180810 @@
    <<2, 1, 1>> :> 29338109 @@
    <<2, 2, 0>> :> 29218841 @@
    <<4, 0, 0>> :> 29348169 @@
    <<4, 1, 0>> :> 29248385 @@
    <<4, 1, 1>> :> 29334996 @@
    <<4, 2, 0>> :> 28982474 @@
    <<6, 0, 0>> :> 29376006 @@
    <<6, 1, 0>> :> 29303694 @@
    <<6, 1, 1>> :> 29316419 @@
    <<6, 2, 0>> :> 29059176 @@
    <<8, 0, 0>> :> 29375396 @@
    <<8, 0, 1>> :> 29374699 @@
    <<8, 0, 2>> :> 29371094 @@
    <<8, 1, 0>> :> 29338507 @@
    <<8, 1, 1>> :> 29322437 @@
    <<8, 1, 2>> :> 29322655 @@
    <<8, 2, 0>> :> 29119588 @@
    <<8, 2, 1>> :> 29336761 @@
    <<10, 0, 0>> :> 29371797 @@
    <<10, 1, 0>> :> 29327303 @@
    <<10, 1, 1>> :> 29310002 @@
    <<10, 2, 0>> :> 29223023 @@
    <<10, 2, 1>> :> 29329979 @@
    <<10, 2, 2>> :> 29333235

DocGridP == <<0, 1, 2, 4, 6, 8, 10>>
DocGridD == <<0, 1, 2>>      \* range(0, 3)
DocGridQ == <<0, 1, 2>>      \* range(0, 3)

InitDoc ==
    \E run \in {ShampooRun, BirthsRun} :
        /\ series = << >> /\ dataset = << >>
        /\ p_values = DocGridP /\ d_values = DocGridD /\ q_values = DocGridQ
        /\ recorded = run
        /\ best_score = Inf /\ best_cfg = None
        /\ i = 0 /\ j = 0 /\ k = 0
        /\ order = None
        /\ out = << >>
        /\ pc = "for_p"
        /\ NoCall
        /\ lib = << >> /\ attempts = << >> /\ trace = << >>
        /\ NoSweep

\* mse = evaluate_arima_model(dataset, order), as the documented run went
Replay ==
    /\ pc = "call"
    /\ IF order \in DOMAIN recorded
       THEN LET mse == [num |-> recorded[order], den |-> 1000]
                b == UpdateBest(mse, order, best_score, best_cfg)
            IN  /\ best_score' = b[1]
                /\ best_cfg' = b[2]
                /\ out' = PrintProgress(out, order, mse, best_score)
                /\ trace' = Append(trace, [order |-> order, ok |-> TRUE,
                                           preds |-> << >>, mse |-> mse])
                /\ pc' = "for_q"
                /\ UNCHANGED <<sweepVars, inputVars, i, j, k, order, lib,
                               attempts, evalVars>>
       ELSE Raised /\ UNCHANGED lib

NextDoc == ForP \/ ForD \/ ForQ \/ Replay \/ PrintBest

SpecDoc == InitDoc /\ [][NextDoc]_vars

(***************************************************************************)
(* The split alone, on series long enough to reach the documented length   *)
(* of 36 and the lengths where 0.66 * len is a whole number.               *)
(***************************************************************************)
MaxSplitLen == 200

InitSplit ==
    \E len \in 0..MaxSplitLen : InitGrid(Series(len), <<0>>, <<0>>, <<0>>)

NextSplit == ForP \/ ForD \/ ForQ \/ Call

SpecSplit == InitSplit /\ [][NextSplit]_vars

(***************************************************************************)
(* The thread-count timing sweep.                                          *)
(***************************************************************************)
MaxCounts  == 3     \* longest list num_threads
MaxThreads == 2     \* thread counts are 1..MaxThreads
MaxClock   == 3     \* wall-clock readings are 0..MaxClock

ThreadLists == UNION {[1..m -> 1..MaxThreads] : m \in 0..MaxCounts}

\* the grid search is not running
NoGrid ==
    /\ series = << >> /\ dataset = << >> /\ recorded = << >>
    /\ p_values = << >> /\ d_values = << >> /\ q_values = << >>
    /\ best_score = Inf /\ best_cfg = None
    /\ i = 0 /\ j = 0 /\ k = 0
    /\ order = None
    /\ out = << >>
    /\ pc = "off"
    /\ NoCall
    /\ lib = << >> /\ attempts = << >> /\ trace = << >>

InitThreads ==
    \E nt \in ThreadLists, now \in 0..MaxClock :
        /\ NoGrid
        /\ num_threads = nt
        /\ results = << >>
        /\ idx = 0 /\ n = 0
        /\ start = 0 /\ elapsed = 0
        /\ clock = now
        /\ shown = << >> /\ fitted = << >>
        /\ tpc = "for_n"

\* for n in num_threads: start = time.time(); model = XGBClassifier(nthread=n)
ForN ==
    /\ tpc = "for_n"
    /\ IF HasNext(idx, num_threads)
       THEN /\ idx' = idx + 1
            /\ n' = num_threads[idx + 1]
            /\ start' = clock
            /\ tpc' = "fit"
       ELSE tpc' = "plot" /\ UNCHANGED <<idx, n, start>>
    /\ UNCHANGED <<num_threads, results, elapsed, clock, shown, fitted,
                   gridVars, evalVars, logVars>>

\* elapsed = time.time() - start
Elapsed(now, st) == now - st

\* variant: the sample is stored twice
Record_twice(res, e) == Append(Append(res, e), e)

\* variant: results.insert(0, elapsed)
Record_front(res, e) == <<e>> \o res

\* results.append(elapsed)
Record(res, e) == Append(res, e)

\* model.fit returns after d units of time; the duration is taken, printed
\* and recorded
FitReturns ==
    /\ tpc = "fit"
    /\ \E d \in 0..MaxClock :
         /\ clock + d <= MaxClock
         /\ clock' = clock + d
         /\ elapsed' = Elapsed(clock', start)
         /\ shown' = Append(shown, <<n, elapsed'>>)
         /\ results' = Record(results, elapsed')
    /\ fitted' = Append(fitted, n)
    /\ tpc' = "for_n"
    /\ UNCHANGED <<num_threads, idx, n, start, gridVars, evalVars, logVars>>

\* variant: the failure is caught and the loop goes on to the next count
FitRaises_caught ==
    /\ tpc = "fit"
    /\ tpc' = "for_n"
    /\ UNCHANGED <<num_threads, results, idx, n, start, elapsed, clock, shown,
                   fitted, gridVars, evalVars, logVars>>

\* model.fit raises: nothing catches it, the script ends with a traceback
FitRaises ==
    /\ tpc = "fit"
    /\ tpc' = "raised"
    /\ UNCHANGED <<num_threads, results, idx, n, start, elapsed, clock, shown,
                   fitted, gridVars, evalVars, logVars>>

\* time.time() reads the system's wall clock, which is not monotonic: it
\* "can return a lower value than a previous call if the system clock has
\* been set back between the two calls" (Python library reference)
ClockSetBack ==
    /\ tpc = "fit"
    /\ \E c \in 0..MaxClock : c < clock /\ clock' = c
    /\ UNCHANGED <<num_threads, results, idx, n, start, elapsed, shown,
                   fitted, tpc, gridVars, evalVars, logVars>>

\* pyplot.plot(num_threads, results) ... pyplot.show()
Plot ==
    /\ tpc = "plot"
    /\ tpc' = "shown"
    /\ UNCHANGED <<num_threads, results, idx, n, start, elapsed, clock, shown,
                   fitted, gridVars, evalVars, logVars>>

NextThreads == ForN \/ FitReturns \/ FitRaises \/ ClockSetBack \/ Plot

SpecThreads == InitThreads /\ [][NextThreads]_vars

(***************************************************************************)
(*                             PROPERTIES                                  *)
(***************************************************************************)
GridSize == Len(p_values) * Len(d_values) * Len(q_values)

\* the calls of the evaluator that returned an error
Successes == {m \in 1..Len(trace) : trace[m].ok}
Failures  == {m \in 1..Len(trace) : ~trace[m].ok}

\* C1: once a sweep with at least one successful evaluation has ended, the
\* final 'Best' line names a configuration that was successfully evaluated,
\* whose error no other successful evaluation undercuts, and prints that
\* configuration's own error.
C1_BestIsMinimum ==
    (pc = "done" /\ Successes # {}) =>
        LET last == out[Len(out)]
        IN  /\ last.kind = "Best ARIMA"
            /\ \E m \in Successes :
                 /\ last.cfg = FmtS(trace[m].order)
                 /\ last.mse = Fmt3f(trace[m].mse)
                 /\ \A o \in Successes : ~Less(trace[o].mse, trace[m].mse)

\* a sweep has ended in which a later configuration beat an earlier one
C1_Witness ==
    /\ pc = "done"
    /\ \E a, b \in Successes : a < b /\ Less(trace[b].mse, trace[a].mse)
    /\ Failures # {}

\* C2: when every configuration fails (an empty grid included) the sweep
\* still runs to its end, the accumulator is still (None, +infinity), and
\* the summary print does not raise: it prints 'Best ARIMANone MSE=inf'.
C2_AllFailNoCrash ==
    /\ pc # "raised"
    /\ (pc \in {"print_best", "done"} /\ Successes = {}) =>
          /\ Len(trace) = GridSize
          /\ best_cfg = None /\ best_score = Inf
          /\ pc = "done" => out = <<BestLine(None, Inf)>>

\* a grid of at least two configurations, all of which failed, was reported
C2_Witness ==
    /\ pc = "done"
    /\ Successes = {}
    /\ Len(trace) >= 2
    /\ out[Len(out)].cfg.txt = "None"

\* C3: the training portion is the first floor(0.66 * len) observations, the
\* held-out portion the remaining len - floor(0.66 * len); the two are
\* contiguous, disjoint and cover the series; 36 splits into 23 and 13.
C3_SplitIsFloor66 ==
    (pc = "walk" /\ t = 0) =>
        LET len == Len(dataset)
            ts  == (66 * len) \div 100
        IN  /\ train_size = ts
            /\ train = [m \in 1..ts |-> dataset[m]]
            /\ test = [m \in 1..(len - ts) |-> dataset[ts + m]]
            /\ Len(train) + Len(test) = len
            /\ train \o test = dataset
            /\ len = 36 => (Len(train) = 23 /\ Len(test) = 13)

\* the documented length has been split
C3_Witness ==
    /\ pc = "walk"
    /\ Len(dataset) = 36
    /\ train_size = 23
    /\ Len(test) = 13

\* C4: after the timing sweep has run to completion, results holds exactly
\* one sample per requested thread count and the m-th sample is the one
\* measured for the m-th requested count, in request order.
C4_OneSamplePerCount ==
    (tpc \in {"plot", "shown"}) =>
        /\ Len(results) = Len(num_threads)
        /\ fitted = num_threads
        /\ \A m \in 1..Len(num_threads) :
             shown[m] = <<num_threads[m], results[m]>>

\* a sweep over three counts, not all equal, has completed with unequal samples
C4_Witness ==
    /\ tpc = "shown"
    /\ Len(num_threads) = 3
    /\ num_threads[1] # num_threads[2]
    /\ results[1] # results[2]

\* C5: every duration recorded by the timing sweep is non-negative.
C5_DurationsNonNegative == \A m \in 1..Len(results) : results[m] >= 0

\* C6: two invocations of evaluate_arima_model on the same series with the
\* same order end the same way, with the same predictions and the same error,
\* whatever was evaluated before or between them.
C6_Deterministic ==
    \A a, b \in 1..Len(trace) :
        trace[a].order = trace[b].order => trace[a] = trace[b]

\* one order was evaluated twice, successfully, with another order in between
C6_Witness ==
    \E a, b, c \in 1..Len(trace) :
        /\ a < c /\ c < b
        /\ trace[a].order = trace[b].order
        /\ trace[c].order # trace[a].order
        /\ trace[a].ok /\ Len(trace[a].preds) >= 2

\* C7: applied to the errors the documented runs printed, the driver ends
\* with the printed 'Best' line: (4,2,1) with 4694.872 for the shampoo
\* sales, (4,2,0) with 28982.474 for the daily births.
C7_DocumentedBest ==
    pc = "done" =>
        /\ recorded = ShampooRun =>
             out[Len(out)] = BestLine(<<4, 2, 1>>, [num |-> 4694872, den |-> 1000])
        /\ recorded = BirthsRun =>
             out[Len(out)] = BestLine(<<4, 2, 0>>, [num |-> 28982474, den |-> 1000])
        /\ Len(out) = Cardinality(DOMAIN recorded) + 1

\* the shampoo replay has ended with its 21 progress lines and the summary
C7_Witness ==
    /\ pc = "done"
    /\ recorded = ShampooRun
    /\ Len(out) = 22
    /\ Len(attempts) = 63
    /\ best_cfg = <<4, 2, 1>>

RECURSIVE ProgressOf(_)
\* the progress lines that the evaluations of tr call for, in order
ProgressOf(tr) ==
    IF tr = << >> THEN << >>
    ELSE LET m == Len(tr)
             rest == ProgressOf(SubSeq(tr, 1, m - 1))
         IN  IF tr[m].ok THEN Append(rest, ProgressLine(tr[m].order, tr[m].mse))
             ELSE rest

\* C8: the output is one progress line per successful evaluation, with its
\* configuration and error, in enumeration order, none for a failed one, and
\* exactly one summary line, last, printed only when the grid is exhausted.
C8_OutputLines ==
    /\ pc # "done" => out = ProgressOf(trace)
    /\ pc = "done" =>
         /\ out = Append(ProgressOf(trace), BestLine(best_cfg, best_score))
         /\ Len(trace) = GridSize

\* a sweep has ended with a failure, and a success that did not improve
C8_Witness ==
    /\ pc = "done"
    /\ Failures # {}
    /\ \E a, b \in Successes : a < b /\ ~Less(trace[b].mse, trace[a].mse)

\* a call of the evaluator ends by raising in this step
FailStep == Len(trace') = Len(trace) + 1 /\ ~trace'[Len(trace')].ok

\* C9: a failed evaluation does not abort the sweep: the accumulator is left
\* as it was, the loops resume at the next configuration, and so every
\* configuration of the grid is attempted however many fail.
C9_FailureSkips ==
    /\ [][FailStep => /\ best_score' = best_score /\ best_cfg' = best_cfg
                      /\ out' = out
                      /\ <<i, j, k>>' = <<i, j, k>>
                      /\ pc' = "for_q"]_vars
    /\ [](pc \in {"print_best", "done"} => Len(attempts) = GridSize)

\* a failure came after a success and before another evaluation
C9_Witness ==
    /\ pc = "done"
    /\ best_cfg # None
    /\ \E a, b, c \in 1..Len(trace) :
         a < b /\ b < c /\ trace[a].ok /\ ~trace[b].ok /\ trace[c].ok

\* the m-th grid point of the nested loops, by position in the three lists
GridPos(m) ==
    <<(m - 1) \div (Len(d_values) * Len(q_values)) + 1,
      (((m - 1) \div Len(q_values)) % Len(d_values)) + 1,
      ((m - 1) % Len(q_values)) + 1>>

\* C10: every triple of p_values x d_values x q_values is attempted exactly
\* once, p outermost and q innermost, and one at a time: an evaluation has
\* ended before the next one begins.
C10_LexicographicOnce ==
    /\ Len(attempts) <= GridSize
    /\ \A m \in 1..Len(attempts) :
         /\ attempts[m].pos = GridPos(m)
         /\ attempts[m].order = <<p_values[GridPos(m)[1]], d_values[GridPos(m)[2]],
                                  q_values[GridPos(m)[3]]>>
    /\ pc \in {"print_best", "done"} => Len(attempts) = GridSize
    /\ Len(attempts) = Len(trace) + (IF pc \in {"call", "walk"} THEN 1 ELSE 0)

\* a grid with two p and two q values, all different, has been swept
C10_Witness ==
    /\ pc = "done"
    /\ Len(p_values) = 2 /\ Len(q_values) = 2 /\ Len(d_values) = 1
    /\ p_values[1] # p_values[2]
    /\ q_values[1] # q_values[2]
    /\ Len(attempts) = 4

\* the successful evaluations whose error no successful evaluation undercuts
Minimal == {m \in Successes : \A o \in Successes : ~Less(trace[o].mse, trace[m].mse)}

\* C11: among the successful evaluations that share the minimum error the
\* reported one is the first in enumeration order: at every moment the
\* accumulator holds the earliest evaluation of minimum error seen so far, so
\* a later one takes its place only with a strictly smaller error.
C11_FirstSeenWins ==
    Successes # {} =>
        \E m \in Minimal :
            /\ \A o \in Minimal : m <= o
            /\ best_cfg = trace[m].order
            /\ best_score = trace[m].mse
            /\ pc = "done" => out[Len(out)] = BestLine(trace[m].order, trace[m].mse)

\* two different orders tied at the minimum and the earlier one was reported
C11_Witness ==
    /\ pc = "done"
    /\ \E a, b \in Minimal :
         /\ a < b
         /\ trace[a].order # trace[b].order
         /\ best_cfg = trace[a].order

\* the first len observations of the series under evaluation
Prefix(len) == SubSeq(dataset, 1, len)

\* C12: at held-out step t the model is fitted on exactly the prefix
\* X[0 .. train_size + t), the training portion followed by the true held-out
\* observations before t, never on observation t, a later one or a forecast;
\* a returned error rests on one prediction per held-out observation, the
\* m-th made from the prefix that ends just before the m-th held-out value.
C12_WalkForward ==
    LET size == TrainSize(dataset)
        held == Test(dataset)
    IN  /\ pc = "walk" =>
             /\ t <= Len(test)
             /\ history = Prefix(train_size + t)
             /\ Len(predictions) = t
        /\ \A key \in DOMAIN lib :
             /\ key[1] = Prefix(Len(key[1]))
             /\ Len(key[1]) >= size
             /\ Len(key[1]) < Len(dataset)
        /\ \A m \in Successes :
             /\ Len(trace[m].preds) = Len(held)
             /\ \A s \in 1..Len(held) :
                  trace[m].preds[s] =
                      Forecast(Prefix(size + s - 1), trace[m].order)
             /\ trace[m].mse = mean_squared_error(held, trace[m].preds)

\* a walk of two held-out steps is complete and its error is due
C12_Witness ==
    /\ pc = "walk"
    /\ t = 2 /\ t = Len(test)
    /\ Len(history) = Len(dataset)
    /\ predictions[1] # test[1]

\* C13 as stated: every stored sample carries the worker count it was measured
\* with, so samples that are equal were measured with the same count.
C13_SampleCarriesCount ==
    \A a, b \in 1..Len(results) :
        results[a] = results[b] => fitted[a] = fitted[b]

\* C13, amended: a stored sample is the elapsed duration alone, a single
\* number; the count it was measured with is known only from its position in
\* results, which is the position of the count in num_threads, and from the
\* line printed for it.
C13_SampleIsDuration ==
    /\ Len(results) = Len(fitted)
    /\ Len(results) = Len(shown)
    /\ \A m \in 1..Len(results) :
         /\ results[m] \in -MaxClock..MaxClock
         /\ results[m] = shown[m][2]
         /\ fitted[m] = num_threads[m]
         /\ shown[m][1] = fitted[m]

\* two counts were measured and their stored samples cannot be told apart
C13_Witness ==
    /\ Len(results) >= 2
    /\ results[1] = results[2]
    /\ fitted[1] # fitted[2]

\* the library raises on the fit that this step asks for
FitFails ==
    /\ pc = "walk" /\ t < Len(test)
    /\ <<history, order>> \in DOMAIN lib'
    /\ lib'[<<history, order>>]

\* C14: evaluate_arima_model catches nothing: when the fit at held-out step t
\* raises, the call ends in that very step by raising into the caller's
\* handler; the walk makes no further step, no error value is returned or
\* printed, and the predictions made before t go nowhere.
C14_FailurePropagates ==
    [][FitFails =>
          /\ FailStep
          /\ trace'[Len(trace')].order = order
          /\ trace'[Len(trace')].mse = NoScore
          /\ trace'[Len(trace')].preds = << >>
          /\ pc' = "for_q"
          /\ t' = t /\ predictions' = predictions /\ history' = history
          /\ out' = out
          /\ best_score' = best_score /\ best_cfg' = best_cfg]_vars

\* a fit raised after a prediction had been made; the call has ended
C14_Witness ==
    /\ pc = "for_q"
    /\ t >= 1 /\ t < Len(test)
    /\ Len(predictions) = t
    /\ <<history, order>> \in DOMAIN lib
    /\ lib[<<history, order>>]
    /\ ~trace[Len(trace)].ok
    /\ trace[Len(trace)].order = order

(***************************************************************************)
(* Both scripts under the scheduling the interpreter gives them: a          *)
(* statement that can run does run, and a fit that was started returns or  *)
(* raises.  The clock's setbacks are the environment's and get no fairness.*)
(***************************************************************************)
\* range(0, m), the form of the driver's d_values and q_values
Range(m) == [x \in 1..m |-> x - 1]

InitBoth ==
    \/ \E len \in 0..MaxLen, a \in 0..MaxDim, b \in 0..MaxDim, c \in 0..MaxDim :
          /\ a * b * c <= MaxGrid
          /\ InitGrid(Series(len), Range(a), Range(b), Range(c))
    \/ \E m \in 0..MaxCounts, now \in 0..MaxClock :
          \* the first m counts of the script's list [1, 2, 3, 4]
          /\ NoGrid
          /\ num_threads = [x \in 1..m |-> x]
          /\ results = << >>
          /\ idx = 0 /\ n = 0
          /\ start = 0 /\ elapsed = 0
          /\ clock = now
          /\ shown = << >> /\ fitted = << >>
          /\ tpc = "for_n"

NextBoth == Next \/ NextThreads

Statement == Next \/ ForN \/ FitReturns \/ FitRaises \/ Plot

SpecFair == InitBoth /\ [][NextBoth]_vars /\ WF_vars(Statement)

\* C15 as stated: both sweeps end in 'grid exhausted', the grid search after
\* |p_values| * |d_values| * |q_values| attempts and the thread sweep after
\* len(num_threads) fits.
C15_BothExhaust ==
    /\ (pc = "for_p") ~> (pc = "done" /\ Len(attempts) = GridSize)
    /\ (tpc = "for_n") ~>
          (tpc \in {"plot", "shown"} /\ Len(fitted) = Len(num_threads))

\* C15, amended: the grid search always ends with its grid exhausted, after
\* exactly |p_values| * |d_values| * |q_values| attempts whatever succeeds or
\* fails; the thread sweep always ends too, with its list exhausted after
\* len(num_threads) fits if no fit raises, and otherwise at the first fit that
\* raises.  Neither takes a step once it has ended, goes back, or tries a
\* grid point twice.
C15_SweepsEnd ==
    /\ (pc = "for_p") ~> (pc = "done")
    /\ (tpc = "for_n") ~> (tpc \in {"shown", "raised"})
    /\ [](pc = "done" => Len(attempts) = GridSize /\ Len(trace) = GridSize)
    /\ [](tpc = "shown" => idx = Len(num_threads) /\ Len(fitted) = idx)
    /\ [](tpc = "raised" => idx <= Len(num_threads) /\ Len(fitted) = idx - 1)
    /\ [](Len(trace) <= Len(attempts) /\ Len(attempts) <= GridSize)
    /\ [][/\ pc # "done" /\ tpc \notin {"shown", "raised"}
          /\ idx' \in {idx, idx + 1}
          /\ Len(attempts') \in {Len(attempts), Len(attempts) + 1}
          /\ Len(attempts') = Len(attempts) + 1 =>
                attempts'[Len(attempts')].pos \notin
                    {attempts[m].pos : m \in 1..Len(attempts)}]_vars

\* a grid search over four configurations has ended after failures and
\* successes
C15_Witness ==
    /\ pc = "done"
    /\ Len(attempts) = 4
    /\ Successes # {} /\ Failures # {}

\* C16: the loaded series is never modified: no step of an evaluation or of
\* the sweep changes the caller's series or the array handed to the
\* evaluator, appending to history included, so every call splits the same
\* series and every configuration is evaluated on it.
C16_SeriesUntouched ==
    /\ [][series' = series /\ dataset' = dataset]_vars
    /\ [](dataset = AsType(series))
    /\ [](pc = "walk" => /\ train \o test = AsType(series)
                         /\ SubSeq(history, 1, train_size) = train)

\* a second call is under way after a call that appended to its history, and
\* has itself appended
C16_Witness ==
    /\ pc = "walk"
    /\ t >= 1
    /\ Len(history) > Len(train)
    /\ Len(trace) >= 1
    /\ trace[1].ok
    /\ Len(trace[1].preds) >= 1

\* C17: at every moment of the sweep best_score is the least error among the
\* evaluations that have succeeded so far, +infinity when there is none;
\* best_cfg is None exactly when best_score is +infinity and is otherwise the
\* order of an evaluation already made whose error is best_score; and no step
\* makes best_score larger.
C17_Accumulator ==
    /\ [](IF Successes = {} THEN best_score = Inf
          ELSE /\ \E m \in Successes : best_score = trace[m].mse
               /\ \A m \in Successes : ~Less(trace[m].mse, best_score))
    /\ [](best_cfg = None <=> best_score = Inf)
    /\ [](best_cfg # None =>
             \E m \in Successes : /\ trace[m].order = best_cfg
                                  /\ trace[m].mse = best_score)
    /\ [][~Less(best_score, best_score')]_vars

\* the accumulator was lowered by a later success after an earlier one had
\* set it, and a failure lies on the way
C17_Witness ==
    /\ pc = "for_q"
    /\ Failures # {}
    /\ \E a, b \in Successes :
         /\ a < b
         /\ Less(trace[b].mse, trace[a].mse)
         /\ best_cfg = trace[b].order
         /\ best_cfg # trace[a].order

\* C18: the timing sweep handles no failure: a fit that ends without a
\* sample ends the script; when the fit for the k-th count has raised,
\* results holds the k-1 durations of the earlier counts in order, k-1 lines
\* were printed, none of them for the k-th count, and nothing runs any more:
\* no later count, no plot.
C18_SweepStopsAtFailure ==
    /\ [](tpc = "raised" =>
             /\ idx >= 1 /\ idx <= Len(num_threads)
             /\ Len(results) = idx - 1
             /\ Len(shown) = idx - 1
             /\ fitted = SubSeq(num_threads, 1, idx - 1)
             /\ \A m \in 1..(idx - 1) :
                  shown[m] = <<num_threads[m], results[m]>>)
    /\ [][tpc # "raised"]_vars
    /\ [][(tpc = "fit" /\ tpc' # "fit" /\ Len(results') = Len(results)) =>
             tpc' = "raised"]_vars

\* the second of three fits raised
C18_Witness ==
    /\ tpc = "raised"
    /\ idx = 2
    /\ Len(num_threads) = 3
    /\ Len(results) = 1

(***************************************************************************)
(* One call of evaluate_arima_model on series of every length up to         *)
(* MaxWalkLen, with its walk.                                              *)
(***************************************************************************)
MaxWalkLen == 12    \* longest series of the single-call specification

InitWalk ==
    \E len \in 0..MaxWalkLen : InitGrid(Series(len), <<0>>, <<1>>, <<0>>)

NextWalk == Next

SpecWalk == InitWalk /\ [][NextWalk]_vars

\* C19 as stated, its part on predictions: a call on a series of length
\* n >= 1 makes at least one prediction.
C19_PredictionMade ==
    (pc = "for_q" /\ Len(trace) >= 1 /\ Len(dataset) >= 1) =>
        Len(predictions) >= 1

\* C19, amended: for a series of length n >= 1 the training size is below n,
\* so the held-out portion is not empty and at least one fit is attempted,
\* the first on the training portion; a prediction is made only if that fit
\* returns.  The training portion is empty exactly when n = 1 (the first fit
\* then receives an empty history).  For n = 0 both portions are empty and
\* no fit is attempted.
C19_SplitBounds ==
    LET len == Len(dataset)
    IN  /\ (pc = "walk" /\ len >= 1) =>
             /\ train_size < len
             /\ Len(test) >= 1
             /\ train = << >> <=> len = 1
        /\ (pc = "walk" /\ len = 0) => train = << >> /\ test = << >>
        /\ len = 0 => DOMAIN lib = {}
        /\ len >= 1 =>
             \A m \in 1..Len(trace) :
                 /\ <<Train(dataset), trace[m].order>> \in DOMAIN lib
                 /\ (trace[m].ok \/ Len(predictions) >= 1) =>
                       ~lib[<<Train(dataset), trace[m].order>>]

\* the call on a series of one observation has ended: its first fit got the
\* empty history
C19_Witness ==
    /\ Len(dataset) = 1
    /\ pc = "for_q"
    /\ Len(trace) = 1
    /\ <<<< >>, order>> \in DOMAIN lib

====
